---- MODULE Spec2Model ----
(***************************************************************************)
(* Model of cwl/workflow.py: class Workflow, which stages the inputs of a  *)
(* CWL workflow execution (createYAMLFile), resolves its declared outputs  *)
(* (createOutputsFiles), zips its provenance folder (compress_provenance)  *)
(* and exports an RO-Crate (create_rocrate).                               *)
(*                                                                         *)
(* Python values are modelled as follows.  A dict is a sequence of         *)
(* <<key, value>> pairs with distinct keys, in insertion order.  A path    *)
(* string is a sequence of symbols, "/" being the separator and every      *)
(* other symbol standing for a separator-free run of characters.  A tuple  *)
(* (path, type) is <<path, type>>.  Every method is one action that takes  *)
(* the call from pc = "ready" to pc = "done"; the arguments of the call    *)
(* and what the environment does during it are drawn in the initial state. *)
(***************************************************************************)
EXTENDS Integers, Sequences, FiniteSets, TLC

VARIABLES
    self,            \* the Workflow object's attributes
    pc,              \* "ready" before the call, "done" after it
    args,            \* the arguments of the call
    env,             \* what the environment does during the call
    raised,          \* the exception that leaves the call, "none" if it returns
    output_files,    \* createOutputsFiles: the caller's dict, filled in place
    failed_at,       \* index of the item on which the loop of the call threw, 0 if none
    wf_exec_inputs,  \* createYAMLFile: the document built
    yaml_file,       \* createYAMLFile: the file at `filename`
    include_files,   \* create_rocrate: the list collected
    crate_calls,     \* create_rocrate: calls made on the rocrate collaborator
    files,           \* compress_provenance: the entries of the folder provenance_path
    zip_file         \* compress_provenance: the file at `filename`

vars == <<self, pc, args, env, raised, output_files, failed_at, wf_exec_inputs,
          yaml_file, include_files, crate_calls, files, zip_file>>

-----------------------------------------------------------------------------
(* Bounds of the model *)

MaxRecs == 2
MaxSpecs == 2
MaxPaths == 2
MaxInputs == 2

-----------------------------------------------------------------------------
(* Python dicts and strings *)

Keys(d) == {d[i][1] : i \in 1..Len(d)}

Has(d, k) == k \in Keys(d)

Get(d, k) == d[CHOOSE i \in 1..Len(d) : d[i][1] = k][2]

\* d[k] = v: replaces the value in place, or appends the new key
Put(d, k, v) ==
    IF Has(d, k)
    THEN [i \in 1..Len(d) |-> IF d[i][1] = k THEN <<k, v>> ELSE d[i]]
    ELSE Append(d, <<k, v>>)

\* every dict with at most n entries, keys in K, values in V
Dicts(K, V, n) ==
    {d \in UNION {[1..m -> K \X V] : m \in 0..n} :
        \A i, j \in 1..Len(d) : d[i][1] = d[j][1] => i = j}

SeqsUpTo(S, n) == UNION {[1..m -> S] : m \in 0..n}

\* str.lower() on the class names an engine reports
Lower(s) ==
    CASE s = "File" -> "file"
      [] s = "Directory" -> "directory"
      [] OTHER -> s

\* an empty dict
NoDoc == <<>>

\* a file on disk: "absent", "old" (there before the call), "written" with the
\* content `doc`, or "partial" (a write that was cut short)
File(state, doc) == [state |-> state, doc |-> doc]

-----------------------------------------------------------------------------
(* Workflow.__init__ *)

Workflow(abs_path) ==
    [abs_path |-> abs_path, type |-> "cwl", execution_provenance |-> <<"execution_create.zip">>]

DEFAULT_KEYS == {"cwl_metadata"}

AbsPath == <<"/", "wd">>

-----------------------------------------------------------------------------
(* Workflow.createOutputsFiles *)

\* next(iter(outputs_execution))
FirstKeyLast(outputs_execution) == outputs_execution[Len(outputs_execution)][1]

FirstKey(outputs_execution) == outputs_execution[1][1]

OutputTuple(rec) == <<rec["path"], Lower(rec["class"])>>

\* allow_multiple false: [ok |-> FALSE] stands for the IndexError of [0]
SingleOutput(outputs_execution) ==
    LET recs == Get(outputs_execution, FirstKey(outputs_execution))
    IN  IF Len(recs) = 0
        THEN [ok |-> FALSE, outputs |-> <<>>]
        ELSE [ok |-> TRUE, outputs |-> <<OutputTuple(recs[1])>>]

MultipleOutputsFirstKey(outputs_execution, out_id) ==
    LET recs == Get(outputs_execution, FirstKey(outputs_execution))
    IN  [ok |-> TRUE, outputs |-> [i \in 1..Len(recs) |-> OutputTuple(recs[i])]]

\* allow_multiple true
MultipleOutputs(outputs_execution, out_id) ==
    LET recs == Get(outputs_execution, out_id)
    IN  [ok |-> TRUE, outputs |-> [i \in 1..Len(recs) |-> OutputTuple(recs[i])]]

ProvenanceOutputsAlways(obj, out_id, execution_path) ==
    [ok |-> TRUE,
     outputs |-> <<<<execution_path \o <<"/">> \o obj.execution_provenance, "file">>>>]

\* the name is not in the execution results
ProvenanceOutputs(obj, out_id, execution_path) ==
    IF out_id \in DEFAULT_KEYS
    THEN [ok |-> TRUE,
          outputs |-> <<<<execution_path \o <<"/">> \o obj.execution_provenance, "file">>>>]
    ELSE [ok |-> TRUE, outputs |-> <<>>]

\* the body of the loop, for one metadata
Outputs(obj, metadata, outputs_execution, execution_path) ==
    LET out_id == metadata["name"]
    IN  IF Has(outputs_execution, out_id)
        THEN IF ~metadata["allow_multiple"]
             THEN SingleOutput(outputs_execution)
             ELSE MultipleOutputs(outputs_execution, out_id)
        ELSE ProvenanceOutputs(obj, out_id, execution_path)

\* output_files[out_id] = outputs, on the caller's dict
SetItem(d, k, v) == [x \in DOMAIN d \cup {k} |-> IF x = k THEN v ELSE d[x]]

RECURSIVE OutputsLoop(_, _, _, _, _, _)
\* the loop from metadata i on: the dict it leaves and where it threw
OutputsLoop(obj, of, output_metadata, outputs_execution, execution_path, i) ==
    IF i > Len(output_metadata)
    THEN [output_files |-> of, failed_at |-> 0]
    ELSE LET r == Outputs(obj, output_metadata[i], outputs_execution, execution_path)
         IN  IF ~r.ok
             THEN [output_files |-> of, failed_at |-> i]
             ELSE OutputsLoop(obj, SetItem(of, output_metadata[i]["name"], r.outputs),
                              output_metadata, outputs_execution, execution_path, i + 1)

createOutputsFiles ==
    /\ pc = "ready"
    /\ args.op = "createOutputsFiles"
    /\ LET r == OutputsLoop(self, output_files, args.output_metadata,
                            args.outputs_execution, args.execution_path, 1)
       IN  /\ output_files' = r.output_files
           /\ failed_at' = r.failed_at
           /\ raised' = IF r.failed_at = 0 THEN "none" ELSE "Exception"
    /\ pc' = "done"
    /\ UNCHANGED <<self, args, env, wf_exec_inputs, yaml_file, include_files,
                   crate_calls, files, zip_file>>

\* the artifact records an engine reports
ArtifactRecords ==
    {[class |-> "File", path |-> <<"/", "p1">>],
     [class |-> "Directory", path |-> <<"/", "p2">>]}

ResultNames == {"a", "b"}

OutputNames == {"a", "b", "cwl_metadata"}

OutputSpecs == [name : OutputNames, allow_multiple : BOOLEAN]

\* lists of output specs, one per logical output
OutputMetadatas ==
    {m \in SeqsUpTo(OutputSpecs, MaxSpecs) :
        \A i, j \in 1..Len(m) : m[i]["name"] = m[j]["name"] => i = j}

NoFiles == [x \in {} |-> <<>>]

StaleFiles == [x \in {"a"} |-> <<<<<<"/", "old">>, "file">>>>]

InitResolve ==
    /\ self = Workflow(AbsPath)
    /\ pc = "ready"
    /\ args \in [op : {"createOutputsFiles"},
                 output_metadata : OutputMetadatas,
                 outputs_execution : Dicts(ResultNames, SeqsUpTo(ArtifactRecords, MaxRecs), 2),
                 execution_path : {<<"/", "run">>}]
    /\ env = "ok"
    /\ raised = "none"
    /\ output_files \in {NoFiles, StaleFiles}
    /\ failed_at = 0
    /\ wf_exec_inputs = NoDoc
    /\ yaml_file = File("absent", NoDoc)
    /\ include_files = <<>>
    /\ crate_calls = <<>>
    /\ files = {}
    /\ zip_file = File("absent", NoDoc)

SpecResolve == InitResolve /\ [][createOutputsFiles]_vars

-----------------------------------------------------------------------------
(* Workflow.createYAMLFile *)

\* a Python value with its runtime type
Str(v) == [type |-> "str", val |-> v]

List(v) == [type |-> "list", val |-> v]

Dict(v) == [type |-> "dict", val |-> v]

\* os.path.isabs on a str
IsAbs(path) == Len(path) > 0 /\ path[1] = "/"

\* os.path.isabs on anything but a str (or bytes, or a PathLike) is a TypeError
IsAbsRaises(v) == v.type # "str"

\* os.path.join(a, b)
Join(a, b) ==
    IF IsAbs(b) THEN b
    ELSE IF Len(a) = 0 \/ a[Len(a)] = "/" THEN a \o b
    ELSE a \o <<"/">> \o b

FileRecord(location) == [class |-> "File", location |-> location]

FileEntryReset(doc, k_in, v_in) == <<<<k_in, Dict(FileRecord(v_in))>>>>

\* wf_exec_inputs.update({k_in: {"class": "File", "location": v_in}})
FileEntry(doc, k_in, v_in) == Put(doc, k_in, Dict(FileRecord(v_in)))

\* wf_exec_inputs[k_in].append(...) for every path of the list
FileListEntry(doc, k_in, v_in) ==
    LET old == IF Has(doc, k_in) THEN Get(doc, k_in).val ELSE <<>>
    IN  Put(doc, k_in, List(old \o [i \in 1..Len(v_in) |-> FileRecord(v_in[i])]))

RECURSIVE InputFilesLoop(_, _, _, _)
\* the loop over input_files from entry i on; [ok |-> FALSE] is the TypeError
InputFilesLoop(obj, doc, input_files, i) ==
    IF i > Len(input_files)
    THEN [ok |-> TRUE, doc |-> doc]
    ELSE LET k_in == input_files[i][1]
             v == input_files[i][2]
         IN  IF IsAbsRaises(v)
             THEN [ok |-> FALSE, doc |-> doc]
             ELSE LET v_in == IF ~IsAbs(v.val) THEN Str(Join(obj.abs_path, v.val)) ELSE v
                      next == CASE v_in.type = "str" -> FileEntry(doc, k_in, v_in.val)
                                [] v_in.type = "list" -> FileListEntry(doc, k_in, v_in.val)
                                [] OTHER -> doc
                  IN  InputFilesLoop(obj, next, input_files, i + 1)

IsReservedNever(k_arg) == FALSE

\* k_arg != "cwl_wf_url", negated
IsReserved(k_arg) == k_arg = "cwl_wf_url"

RECURSIVE ArgumentsLoop(_, _, _)
\* the loop over arguments from entry i on
ArgumentsLoop(doc, arguments, i) ==
    IF i > Len(arguments)
    THEN doc
    ELSE LET k_arg == arguments[i][1]
             v_arg == arguments[i][2]
         IN  ArgumentsLoop(IF ~IsReserved(k_arg) THEN Put(doc, k_arg, v_arg) ELSE doc,
                           arguments, i + 1)

\* open(filename, 'w+') and yaml.dump(dict(wf_exec_inputs), ...), or the IOError
\* of one of them: what is raised and the file left behind
WriteYAML(doc, file, io) ==
    CASE io = "open_fails" -> [raised |-> "Exception", file |-> file]
      [] io = "dump_fails" -> [raised |-> "Exception", file |-> File("partial", NoDoc)]
      [] OTHER -> [raised |-> "none", file |-> File("written", doc)]

createYAMLFile ==
    /\ pc = "ready"
    /\ args.op = "createYAMLFile"
    /\ LET f == InputFilesLoop(self, NoDoc, args.input_files, 1)
           doc == ArgumentsLoop(f.doc, args.arguments, 1)
       IN  IF ~f.ok
           THEN /\ raised' = "TypeError"
                /\ wf_exec_inputs' = f.doc
                /\ yaml_file' = yaml_file
           ELSE /\ wf_exec_inputs' = doc
                /\ IF Len(doc) # 0
                   THEN LET w == WriteYAML(doc, yaml_file, env)
                        IN  raised' = w.raised /\ yaml_file' = w.file
                   ELSE raised' = "Exception" /\ yaml_file' = yaml_file
    /\ pc' = "done"
    /\ UNCHANGED <<self, args, env, output_files, failed_at, include_files,
                   crate_calls, files, zip_file>>

InputPaths == {<<"/", "in", "/", "x">>, <<"y">>}

InputFileValues == {Str(p) : p \in InputPaths} \cup {List(l) : l \in SeqsUpTo(InputPaths, MaxPaths)}

InputFileNames == {"f", "g"}

ArgumentNames == {"g", "cwl_wf_url"}

ArgumentValues == {Str(<<"v">>), List(<<<<"v">>, <<"w">>>>)}

AbsPaths == {<<"/", "wd">>, <<"/", "wd", "/">>}

InitBuild ==
    /\ self \in {Workflow(p) : p \in AbsPaths}
    /\ pc = "ready"
    /\ args \in [op : {"createYAMLFile"},
                 input_files : Dicts(InputFileNames, InputFileValues, 2),
                 arguments : Dicts(ArgumentNames, ArgumentValues, 2),
                 filename : {<<"/", "wd", "/", "inputs.yml">>}]
    /\ env \in {"ok", "open_fails", "dump_fails"}
    /\ raised = "none"
    /\ output_files = NoFiles
    /\ failed_at = 0
    /\ wf_exec_inputs = NoDoc
    /\ yaml_file \in {File("absent", NoDoc), File("old", NoDoc)}
    /\ include_files = <<>>
    /\ crate_calls = <<>>
    /\ files = {}
    /\ zip_file = File("absent", NoDoc)

SpecBuild == InitBuild /\ [][createYAMLFile]_vars

-----------------------------------------------------------------------------
(* Workflow.create_rocrate *)

\* obj.name is an AttributeError unless __init__ set the attribute
HasAttr(obj, name) == name \in DOMAIN obj

RECURSIVE IncludeFilesLoop(_, _, _)
\* the loop over input_files from entry i on; failed_at is the entry whose
\* ['location'] was a KeyError
IncludeFilesLoop(include, input_files, i) ==
    IF i > Len(input_files)
    THEN [include_files |-> include, failed_at |-> 0]
    ELSE LET input_file == input_files[i][2]
         IN  IF input_file.type = "dict"
             THEN IF "location" \in DOMAIN input_file.val
                  THEN IncludeFilesLoop(Append(include, input_file.val["location"]),
                                        input_files, i + 1)
                  ELSE [include_files |-> include, failed_at |-> i]
             ELSE IncludeFilesLoop(include, input_files, i + 1)

\* rocrate_api.make_workflow_rocrate(...) and ro_crate.write_crate_entities(...):
\* the calls that reach the collaborator and whether one of them threw
MakeAndWrite(workflow_path, wf_type, include, rocrate_path, collaborator) ==
    LET make == [fn |-> "make_workflow_rocrate", workflow_path |-> workflow_path,
                 wf_type |-> wf_type, include_files |-> include, path |-> <<>>]
        write == [fn |-> "write_crate_entities", workflow_path |-> <<>>,
                  wf_type |-> "", include_files |-> <<>>, path |-> rocrate_path]
    IN  CASE collaborator = "make_fails" -> [calls |-> <<make>>, raised |-> "Exception"]
          [] collaborator = "write_fails" -> [calls |-> <<make, write>>, raised |-> "Exception"]
          [] OTHER -> [calls |-> <<make, write>>, raised |-> "none"]

create_rocrate ==
    /\ pc = "ready"
    /\ args.op = "create_rocrate"
    /\ LET c == IncludeFilesLoop(<<>>, args.input_files, 1)
       IN  /\ include_files' = c.include_files
           /\ failed_at' = c.failed_at
           /\ IF c.failed_at # 0
              THEN raised' = "Exception" /\ crate_calls' = crate_calls
              ELSE IF ~HasAttr(self, "wf_type")
              THEN raised' = "Exception" /\ crate_calls' = crate_calls
              ELSE LET r == MakeAndWrite(args.cwl_wf_url, self["wf_type"], c.include_files,
                                         args.rocrate_path, env)
                   IN  raised' = r.raised /\ crate_calls' = crate_calls \o r.calls
    /\ pc' = "done"
    /\ UNCHANGED <<self, args, env, output_files, wf_exec_inputs, yaml_file,
                   files, zip_file>>

\* the values of the inputs of a tool: files, directories, lists of files,
\* scalar arguments and structured arguments
ToolInputValues ==
    {Dict(FileRecord(<<"/", "in", "/", "x">>)),
     Dict(FileRecord(<<"/", "wd", "/", "y">>)),
     Dict([class |-> "Directory", location |-> <<"/", "in", "/", "d">>]),
     List(<<FileRecord(<<"/", "in", "/", "x">>)>>),
     Str(<<"v">>),
     Dict([threads |-> 4])}

ToolInputNames == {"f", "g", "h"}

InitExport ==
    /\ self = Workflow(AbsPath)
    /\ pc = "ready"
    /\ args \in [op : {"create_rocrate"},
                 cwl_wf_url : {<<"https:", "/", "/", "host", "/", "wf.cwl">>},
                 input_files : Dicts(ToolInputNames, ToolInputValues, MaxInputs),
                 rocrate_path : {<<"/", "wd", "/", "crate">>}]
    /\ env \in {"ok", "make_fails", "write_fails"}
    /\ raised = "none"
    /\ output_files = NoFiles
    /\ failed_at = 0
    /\ wf_exec_inputs = NoDoc
    /\ yaml_file = File("absent", NoDoc)
    /\ include_files = <<>>
    /\ crate_calls = <<>>
    /\ files = {}
    /\ zip_file = File("absent", NoDoc)

SpecExport == InitExport /\ [][create_rocrate]_vars

-----------------------------------------------------------------------------
(* Workflow.compress_provenance *)

\* an entry of the provenance folder, by its path relative to the folder
RegularFile(path) == [path |-> path, kind |-> "file"]

Folder(path) == [path |-> path, kind |-> "dir"]

\* os.path.abspath of a path that is absolute and normal
AbsPathOf(path) == path

\* filename is inside the folder abs_src
IsUnder(filename, abs_src) ==
    /\ Len(filename) > Len(abs_src) + 1
    /\ SubSeq(filename, 1, Len(abs_src) + 1) = abs_src \o <<"/">>

\* the archive as an entry of the folder abs_src, when it lies inside it
ArchiveInside(filename, abs_src) ==
    IF IsUnder(filename, abs_src)
    THEN {RegularFile(SubSeq(filename, Len(abs_src) + 2, Len(filename)))}
    ELSE {}

\* zipfile.ZipFile(filename, "w", ...): the file is created (or truncated)
OpenArchive(tree, filename, abs_src) == tree \cup ArchiveInside(filename, abs_src)

\* number of folders above a file
Depth(path) == Cardinality({i \in 1..Len(path) : path[i] = "/"})

\* the orders in which os.walk (top-down) can give the regular files of a tree
WalkOrders(tree) ==
    LET fs == {e \in tree : e.kind = "file"}
    IN  {w \in [1..Cardinality(fs) -> fs] :
            /\ \A i, j \in DOMAIN w : w[i] = w[j] => i = j
            /\ \A i, j \in DOMAIN w : i < j => Depth(w[i].path) <= Depth(w[j].path)}

\* zpf.write(abs_name, arc_name) of one file
ZipEntry(abs_src, e) ==
    LET abs_name == AbsPathOf(abs_src \o <<"/">> \o e.path)
        arc_name == SubSeq(abs_name, Len(abs_src) + 2, Len(abs_name))
    IN  [abs_name |-> abs_name, arc_name |-> arc_name]

compress_provenance ==
    /\ pc = "ready"
    /\ args.op = "compress_provenance"
    /\ LET abs_src == AbsPathOf(args.provenance_path)
           opened == OpenArchive(files, args.filename, abs_src)
       IN  CASE env = "open_fails" ->
                  /\ raised' = "Exception"
                  /\ files' = files
                  /\ zip_file' = zip_file
             [] env = "write_fails" ->
                  /\ raised' = "Exception"
                  /\ files' = opened
                  /\ zip_file' = File("partial", NoDoc)
             [] env = "removed" ->
                  /\ raised' = "SystemExit"
                  /\ files' = files \ ArchiveInside(args.filename, abs_src)
                  /\ zip_file' = File("absent", NoDoc)
             [] OTHER ->
                  /\ raised' = "none"
                  /\ files' = opened
                  /\ \E w \in WalkOrders(opened) :
                        zip_file' = File("written", [i \in DOMAIN w |-> ZipEntry(abs_src, w[i])])
    /\ pc' = "done"
    /\ UNCHANGED <<self, args, env, output_files, failed_at, wf_exec_inputs,
                   yaml_file, include_files, crate_calls>>

ProvenancePath == <<"/", "prov">>

\* what a provenance folder can hold
ProvenanceEntries ==
    {RegularFile(<<"a.txt">>), RegularFile(<<"sub", "/", "b.txt">>),
     RegularFile(<<"out.zip">>), Folder(<<"sub">>), Folder(<<"empty">>)}

ProvenanceTrees ==
    {t \in SUBSET ProvenanceEntries :
        RegularFile(<<"sub", "/", "b.txt">>) \in t => Folder(<<"sub">>) \in t}

ArchiveNames == {ProvenancePath \o <<"/", "out.zip">>, <<"/", "wd", "/", "out.zip">>}

InitArchive ==
    /\ self = Workflow(AbsPath)
    /\ pc = "ready"
    /\ args \in [op : {"compress_provenance"},
                 filename : ArchiveNames,
                 provenance_path : {ProvenancePath}]
    /\ env \in {"ok", "open_fails", "write_fails", "removed"}
    /\ raised = "none"
    /\ output_files = NoFiles
    /\ failed_at = 0
    /\ wf_exec_inputs = NoDoc
    /\ yaml_file = File("absent", NoDoc)
    /\ include_files = <<>>
    /\ crate_calls = <<>>
    /\ files \in ProvenanceTrees
    /\ zip_file \in {File("absent", NoDoc), File("old", NoDoc)}
    /\ IsUnder(args.filename, ProvenancePath) =>
          (zip_file.state = "old" <=> RegularFile(<<"out.zip">>) \in files)

SpecArchive == InitArchive /\ [][compress_provenance]_vars

-----------------------------------------------------------------------------
(* Claims about createOutputsFiles *)

\* metadata i was processed to the end: its result was stored in output_files
Stored(i) == pc = "done" /\ (failed_at = 0 \/ failed_at > i)

FirstRecords == Get(args.outputs_execution, args.outputs_execution[1][1])

ExpectedTuple(rec) == <<rec["path"], Lower(rec["class"])>>

\* C1 as stated: an output with allow_multiple = false whose name is in the
\* execution results always resolves, without error, to exactly one pair built
\* from the first record of the first key of the execution results.
C1_AnyResults ==
    pc = "done" =>
        \A i \in 1..Len(args.output_metadata) :
            LET m == args.output_metadata[i]
            IN  (~m["allow_multiple"] /\ Has(args.outputs_execution, m["name"])) =>
                    /\ raised = "none"
                    /\ Len(FirstRecords) >= 1
                    /\ output_files[m["name"]] = <<ExpectedTuple(FirstRecords[1])>>

\* C1 amended: the same, for execution results whose first key holds at least
\* one artifact record.
C1_FirstKeyNonEmpty ==
    pc = "done" =>
        \A i \in 1..Len(args.output_metadata) :
            LET m == args.output_metadata[i]
            IN  (/\ ~m["allow_multiple"]
                 /\ Has(args.outputs_execution, m["name"])
                 /\ Len(FirstRecords) >= 1) =>
                    /\ raised = "none"
                    /\ output_files[m["name"]] = <<ExpectedTuple(FirstRecords[1])>>

\* a single output resolved from a first key that is not its own name, whose
\* own first record differs
C1_Witness ==
    /\ pc = "done"
    /\ raised = "none"
    /\ \E i \in 1..Len(args.output_metadata) :
        LET m == args.output_metadata[i]
        IN  /\ ~m["allow_multiple"]
            /\ Has(args.outputs_execution, m["name"])
            /\ args.outputs_execution[1][1] # m["name"]
            /\ Len(FirstRecords) >= 1
            /\ Len(Get(args.outputs_execution, m["name"])) >= 1
            /\ Get(args.outputs_execution, m["name"])[1] # FirstRecords[1]
            /\ output_files[m["name"]] = <<ExpectedTuple(FirstRecords[1])>>

\* C2: an output with allow_multiple = true whose name holds N records in the
\* execution results is processed without error and resolves to N pairs, the
\* k-th built from the k-th record under its own name.
C2_MultipleInOrder ==
    pc = "done" =>
        \A i \in 1..Len(args.output_metadata) :
            LET m == args.output_metadata[i]
            IN  (m["allow_multiple"] /\ Has(args.outputs_execution, m["name"])) =>
                    /\ failed_at # i
                    /\ Stored(i) =>
                        LET recs == Get(args.outputs_execution, m["name"])
                            out == output_files[m["name"]]
                        IN  /\ Len(out) = Len(recs)
                            /\ \A k \in 1..Len(recs) : out[k] = ExpectedTuple(recs[k])

\* a multiple output, not the first key, with two different records
C2_Witness ==
    /\ pc = "done"
    /\ \E i \in 1..Len(args.output_metadata) :
        LET m == args.output_metadata[i]
        IN  /\ m["allow_multiple"]
            /\ Has(args.outputs_execution, m["name"])
            /\ args.outputs_execution[1][1] # m["name"]
            /\ Stored(i)
            /\ Len(Get(args.outputs_execution, m["name"])) = 2
            /\ Get(args.outputs_execution, m["name"])[1] # Get(args.outputs_execution, m["name"])[2]
            /\ Len(output_files[m["name"]]) = 2

C4_NoPartialResult ==
    [][(createOutputsFiles /\ raised' # "none") => output_files' = output_files]_vars

-----------------------------------------------------------------------------
(* Claims about createYAMLFile *)

\* the inputs whose merged document has no entry
NothingToBind ==
    args.input_files = NoDoc /\ Keys(args.arguments) \subseteq {"cwl_wf_url"}

\* C5: a call whose merged document has no entry (both maps empty, or no input
\* file and only the reserved argument "cwl_wf_url") fails with an error and
\* leaves the target file as it was; the file changes only for a document
\* that has entries.
C5_EmptyDocumentFails ==
    [][createYAMLFile =>
        /\ NothingToBind => (raised' = "Exception" /\ yaml_file' = yaml_file)
        /\ yaml_file' # yaml_file => Len(wf_exec_inputs') > 0]_vars

\* only the reserved argument was given, and the file that was there is kept
C5_Witness ==
    /\ pc = "done"
    /\ args.input_files = NoDoc
    /\ Keys(args.arguments) = {"cwl_wf_url"}
    /\ env = "ok"
    /\ raised = "Exception"
    /\ yaml_file = File("old", NoDoc)

\* a path made absolute against the base path
Resolved(path) == IF IsAbs(path) THEN path ELSE Join(self.abs_path, path)

\* C6: with a working file system, every input_files entry (not overwritten by
\* an argument of the same name) is bound without error: a sequence of paths
\* to the sequence of its File records in the same order, a single path to one
\* File record, every location being absolute.
C6_FileEntriesBound ==
    (pc = "done" /\ env = "ok") =>
        \A i \in 1..Len(args.input_files) :
            LET k == args.input_files[i][1]
                v == args.input_files[i][2]
            IN  ~Has(args.arguments, k) =>
                    /\ raised = "none"
                    /\ Has(yaml_file.doc, k)
                    /\ v.type = "str" =>
                        /\ Get(yaml_file.doc, k) = Dict(FileRecord(Resolved(v.val)))
                        /\ IsAbs(Get(yaml_file.doc, k).val.location)
                    /\ v.type = "list" =>
                        /\ Get(yaml_file.doc, k) =
                             List([j \in 1..Len(v.val) |-> FileRecord(Resolved(v.val[j]))])
                        /\ \A j \in 1..Len(v.val) : IsAbs(Get(yaml_file.doc, k).val[j].location)

AllNames == Keys(args.input_files) \cup Keys(args.arguments)

\* an argument overwrites the file entry of the same name
ArgumentWins ==
    \A k \in Keys(args.arguments) \ {"cwl_wf_url"} :
        Has(yaml_file.doc, k) /\ Get(yaml_file.doc, k) = Get(args.arguments, k)

-----------------------------------------------------------------------------
(* Claims about create_rocrate *)

\* C8: when collecting the files did not fail, the crate builder is invoked
\* once, with the workflow URL, the workflow type tag and the collected list;
\* unless it fails, the crate's write is then invoked on the target directory;
\* when neither fails, the call returns without error.
C8_BuilderThenWrite ==
    (pc = "done" /\ failed_at = 0) =>
        /\ Len(crate_calls) >= 1
        /\ crate_calls[1].fn = "make_workflow_rocrate"
        /\ crate_calls[1].workflow_path = args.cwl_wf_url
        /\ crate_calls[1].wf_type = self.type
        /\ crate_calls[1].include_files = include_files
        /\ \A i \in 2..Len(crate_calls) : crate_calls[i].fn # "make_workflow_rocrate"
        /\ env # "make_fails" =>
              /\ Len(crate_calls) = 2
              /\ crate_calls[2].fn = "write_crate_entities"
              /\ crate_calls[2].path = args.rocrate_path
        /\ env = "ok" => raised = "none"

IsFileTyped(entry) ==
    /\ entry[2].type = "dict"
    /\ "class" \in DOMAIN entry[2].val
    /\ entry[2].val["class"] = "File"

\* the locations of the file-typed entries, in the order of the map
FileLocations(input_files) ==
    LET fs == SelectSeq(input_files, IsFileTyped)
    IN  [i \in 1..Len(fs) |-> fs[i][2].val["location"]]

\* C9: collecting never fails, and the list collected is the locations of the
\* file-typed entries of input_files, in the order of the map: directories
\* and arguments add nothing.
C9_OnlyFileLocations ==
    pc = "done" => (failed_at = 0 /\ include_files = FileLocations(args.input_files))

-----------------------------------------------------------------------------
(* Claims about compress_provenance *)

\* the regular files of the folder, the archive itself left out
FilesToArchive ==
    {e.path : e \in {x \in files : x.kind = "file"}
                      \ ArchiveInside(args.filename, args.provenance_path)}

\* C10: with a working file system the archive written holds one entry per
\* regular file the folder held before the call, named by its path relative to
\* the folder, and nothing else (no folder, not the archive itself); and when
\* the archive is missing after the write the process exits (SystemExit)
\* instead of raising the generic error.
C10_ExactlyTheFiles ==
    [][compress_provenance =>
        /\ env = "ok" =>
              /\ raised' = "none"
              /\ zip_file'.state = "written"
              /\ Len(zip_file'.doc) = Cardinality(FilesToArchive)
              /\ {zip_file'.doc[i].arc_name : i \in 1..Len(zip_file'.doc)} = FilesToArchive
        /\ env = "removed" => raised' = "SystemExit"]_vars

====
